---------------------------- MODULE Spec2Model ----------------------------
(***************************************************************************)
(* A model of assets/js/main.js: the data loader (fetchData), the four     *)
(* list renderers, the article renderer, the page router (init), the       *)
(* contact modal with its form submission, and the mobile menu.            *)
(*                                                                         *)
(* The file holds two generations of the script; the definitions below     *)
(* model the later, complete one (lines 217-538).                          *)
(*                                                                         *)
(* Four groups of specifications share the variables:                      *)
(*   UISpec / FairUISpec   the modal, the contact form and the menu        *)
(*   Spec                  one page load: router, fetches, renderers       *)
(*   RenderSpec            the four list renderers called directly         *)
(*   FetchSpec             fetchData called directly                       *)
(***************************************************************************)
EXTENDS Integers, Sequences, FiniteSets, TLC

VARIABLES
    \* ---- contact modal (setupModal) ----
    modalWired,     \* #modal, #openModalBtn and .close-btn all exist (line 479)
    display,        \* modal.style.display
    modalOpen,      \* 'modal--open' is in modal.classList
    timers,         \* pending setTimeout callbacks, in creation order
    reqs,           \* history: the last two modal requests, "open"/"close"
    \* ---- contact form ----
    formPresent,    \* #contact-form exists (line 508)
    hasNumberInput, \* input[name="contact_number"] exists (line 514)
    formNumber,     \* value of the contact_number field: <<>> when empty, else <<n>>
    btnText,        \* submitBtn.textContent
    btnDisabled,    \* submitBtn.disabled
    originalText,   \* the handler's captured const originalText (line 519)
    sendState,      \* the emailjs.sendForm promise: "idle" or "pending"
    lastAlert,      \* the last alert() shown: "none", "sent", "failed"
    \* ---- mobile menu (setupMobileMenu) ----
    menuWired,      \* .menu-toggle and .nav-links both exist (line 447)
    navActive,      \* 'active' is in navLinks.classList
    toggleOpen,     \* 'open' is in menuToggle.classList
    snap,           \* history: class states before the last consecutive toggle clicks
    \* ---- document and location ----
    pathname,       \* window.location.pathname, as a sequence of segments
    idParam,        \* the 'id' query parameter: whether present, and its characters
    exists,         \* which list containers the document has
    content,        \* innerHTML of each list container, a sequence of tokens
    \* ---- renderers called directly (RenderSpec) ----
    lastCall,       \* history: the last direct renderer call and the content before it
    nRenders,       \* number of direct renderer calls made
    \* ---- data loader (fetchData) ----
    calls,          \* the fetchData calls made so far, one record each
    errors,         \* console.error entries, in order
    netReqs,        \* network requests issued so far, per URL
    settleOrder,    \* history: the fetchData calls in the order they settled
    \* ---- page router (init) and article page (renderFullArticle) ----
    pc,             \* where init() stands
    branch,         \* history: the branches of the router taken
    invoked,        \* history: the renderers init() has called, in order
    artFetch,       \* the article's fetch chain: none/pending/done/failed
    artData,        \* the posts the article's fetch chain parsed (<<>> before)
    artTitle,       \* #article-title textContent
    artContent,     \* #article-content innerHTML
    artMeta,        \* #article-meta innerHTML
    artHero,        \* #article-hero-image: its innerHTML and style.display
    docTitle        \* document.title

modalVars == <<modalWired, display, modalOpen, timers, reqs>>
formVars  == <<formPresent, hasNumberInput, formNumber, btnText, btnDisabled,
               originalText, sendState, lastAlert>>
menuVars  == <<menuWired, navActive, toggleOpen, snap>>
uiVars    == <<modalVars, formVars, menuVars>>

domVars   == <<pathname, idParam, exists, content>>
renderVars == <<lastCall, nRenders>>
fetchVars == <<calls, errors, netReqs, settleOrder>>
routeVars == <<pc, branch, invoked>>
artVars   == <<artFetch, artData, artTitle, artContent, artMeta, artHero, docTitle>>
pageVars  == <<domVars, renderVars, fetchVars, routeVars, artVars>>

vars == <<uiVars, pageVars>>

---------------------------------------------------------------------------
(* Bounds *)

\* the most setTimeout callbacks that may be pending at once
MaxTimers == 3

\* the contact numbers Math.random() * 100000 | 0 is drawn from: 0 .. MaxRand
MaxRand == 1

\* the longest JSON array a data file holds
MaxLen == 2

\* the most direct renderer calls in one behaviour of RenderSpec
MaxRenders == 1

\* the most direct fetchData calls in one behaviour of FetchSpec
MaxCalls == 2

---------------------------------------------------------------------------
(* Contact modal *)

\* setTimeout(..., 10) of the open handler
OpenDelay == 10

\* setTimeout(..., 300) of closeModal
CloseDelay == 300

Delay(kind) == IF kind = "open" THEN OpenDelay ELSE CloseDelay

\* A timer created earlier fires first unless its delay is strictly longer:
\* the pending callback i may run next iff every callback created before it
\* has a longer delay (it may then have been created late enough to expire
\* first; how much later it was created is the environment's choice).
CanFire(i) ==
    /\ i \in 1..Len(timers)
    /\ \A j \in 1..(i - 1) : Delay(timers[j]) > Delay(timers[i])

RemoveAt(s, i) == SubSeq(s, 1, i - 1) \o SubSeq(s, i + 1, Len(s))

\* history bookkeeping: keep the last two requests
Record(h, r) == IF Len(h) < 2 THEN Append(h, r) ELSE <<h[2], r>>

\* openBtn click handler
OpenClick ==
    /\ modalWired
    /\ Len(timers) < MaxTimers
    /\ display' = "block"
    /\ timers' = Append(timers, "open")
    /\ reqs' = Record(reqs, "open")
    /\ UNCHANGED <<modalWired, modalOpen, formVars, menuVars, pageVars>>

\* the callback of the open handler's setTimeout
OpenTimerFire(i) ==
    /\ CanFire(i)
    /\ timers[i] = "open"
    /\ modalOpen' = TRUE
    /\ timers' = RemoveAt(timers, i)
    /\ UNCHANGED <<modalWired, display, reqs, formVars, menuVars, pageVars>>

\* a closeModal that forgets to schedule the display change
closeModal_NoTimer ==
    /\ modalOpen' = FALSE
    /\ timers' = timers
    /\ reqs' = Record(reqs, "close")

\* const closeModal = () => { ... }
closeModal ==
    /\ modalOpen' = FALSE
    /\ timers' = Append(timers, "close")
    /\ reqs' = Record(reqs, "close")

\* closeBtn click
CloseClick ==
    /\ modalWired
    /\ Len(timers) < MaxTimers
    /\ closeModal
    /\ UNCHANGED <<modalWired, display, formVars, menuVars, pageVars>>

\* window click: closes only when the click landed on the modal backdrop
OutsideClick(target) ==
    /\ modalWired
    /\ IF target = "modal"
       THEN /\ Len(timers) < MaxTimers
            /\ closeModal
            /\ UNCHANGED <<modalWired, display, formVars, menuVars, pageVars>>
       ELSE UNCHANGED vars

\* the callback of closeModal's setTimeout
CloseTimerFire(i) ==
    /\ CanFire(i)
    /\ timers[i] = "close"
    /\ display' = "none"
    /\ timers' = RemoveAt(timers, i)
    /\ UNCHANGED <<modalWired, modalOpen, reqs, formVars, menuVars, pageVars>>

---------------------------------------------------------------------------
(* Contact form *)

Labels == {"Send", "Submit"}
SendingLabel == "Sending"

\* a .finally that re-enables the button but leaves the label alone
finallyHandler_KeepLabel ==
    /\ btnText' = btnText
    /\ btnDisabled' = FALSE

\* .finally(() => { submitBtn.textContent = originalText; submitBtn.disabled = false; })
finallyHandler ==
    /\ btnText' = originalText
    /\ btnDisabled' = FALSE

\* form submit handler, up to the call of emailjs.sendForm.  The browser
\* delivers a submit event only through an enabled submit button, so no
\* second event arrives while the handler has the button disabled.
Submit(n) ==
    /\ modalWired
    /\ formPresent
    /\ ~btnDisabled
    /\ formNumber' = IF hasNumberInput THEN <<n>> ELSE formNumber
    /\ originalText' = btnText
    /\ btnText' = SendingLabel
    /\ btnDisabled' = TRUE
    /\ sendState' = "pending"
    /\ UNCHANGED <<formPresent, hasNumberInput, lastAlert, modalVars, menuVars, pageVars>>

\* sendForm resolves: the success callback, then the finally callback
SendResolve ==
    /\ sendState = "pending"
    /\ Len(timers) < MaxTimers
    /\ lastAlert' = "sent"
    /\ closeModal
    /\ formNumber' = <<>>
    /\ finallyHandler
    /\ sendState' = "idle"
    /\ UNCHANGED <<formPresent, hasNumberInput, originalText,
                   modalWired, display, menuVars, pageVars>>

\* sendForm rejects: the failure callback, then the finally callback
SendReject ==
    /\ sendState = "pending"
    /\ lastAlert' = "failed"
    /\ finallyHandler
    /\ sendState' = "idle"
    /\ UNCHANGED <<formPresent, hasNumberInput, formNumber, originalText,
                   modalVars, menuVars, pageVars>>

---------------------------------------------------------------------------
(* Mobile menu *)

\* a toggle that can only add the class
classListToggle_AddOnly(b) == TRUE

\* classList.toggle(token) on one element: b is whether the token is present
classListToggle(b) == ~b

\* menuToggle click handler
MenuToggleClick ==
    /\ menuWired
    /\ navActive' = classListToggle(navActive)
    /\ toggleOpen' = classListToggle(toggleOpen)
    /\ snap' = IF Len(snap) < 2
               THEN Append(snap, <<navActive, toggleOpen>>)
               ELSE <<snap[2], <<navActive, toggleOpen>>>>
    /\ UNCHANGED <<menuWired, modalVars, formVars, pageVars>>

\* .nav-link click handler
NavLinkClick ==
    /\ menuWired
    /\ navActive' = FALSE
    /\ toggleOpen' = FALSE
    /\ snap' = <<>>
    /\ UNCHANGED <<menuWired, modalVars, formVars, pageVars>>

---------------------------------------------------------------------------
(* Data: the records of data/team.json, data/products.json, data/blog.json *)

m1 == [photo |-> "ann.jpg", name |-> "Ann", role |-> "Math", bio |-> "bio1",
       subjects |-> <<"algebra", "geometry">>]
m2 == [photo |-> "bob.jpg", name |-> "Bob", role |-> "Physics", bio |-> "bio2",
       subjects |-> <<"mechanics">>]
p1 == [title |-> "Course A", price |-> "100", features |-> <<"f1", "f2">>,
       isPopular |-> TRUE]
p2 == [title |-> "Course B", price |-> "200", features |-> <<>>,
       isPopular |-> FALSE]
b1 == [id |-> 1, date |-> "2024-01-01", tags |-> <<"t1", "t2", "t3">>,
       title |-> "Post 1", excerpt |-> "e1", link |-> "article.html?id=1",
       content |-> "body1", image |-> <<"hero1.jpg">>]
b2 == [id |-> 2, date |-> "2024-02-02", tags |-> <<"t4">>,
       title |-> "Post 2", excerpt |-> "e2", link |-> "article.html?id=2",
       content |-> "body2", image |-> <<>>]

Members  == {m1, m2}
Products == {p1, p2}
Posts    == {b1, b2}

\* every array of at most MaxLen records of S
Arrays(S) == UNION {[1..n -> S] : n \in 0..MaxLen}

\* a JavaScript value a renderer may be handed: null, or an array of records
Null == [null |-> TRUE, data |-> <<>>]
Json(d) == [null |-> FALSE, data |-> d]

---------------------------------------------------------------------------
(* Renderers *)

\* CONFIG.selectors
Containers == {"team", "services", "blog", "fullBlog"}

\* what a container holds before any renderer wrote to it
Placeholder == <<"placeholder">>

\* Array.prototype.join(''): the concatenation of the fragments
RECURSIVE Join(_)
Join(frags) ==
    IF frags = <<>> THEN <<>> ELSE Head(frags) \o Join(Tail(frags))

\* the template literals' inner .map(x => `<span ...>${x}</span>`)
Spans(open, xs) == [i \in 1..Len(xs) |-> <<open, xs[i], "</>">>]

\* Array.prototype.slice(0, n)
Slice(xs, n) == SubSeq(xs, 1, IF Len(xs) < n THEN Len(xs) ELSE n)

\* the template literal of renderTeam
TeamBlock(m) ==
    <<"<div card team-card>", "<img>", m.photo, m.name,
      "<h3 name>", m.name, "<span role>", m.role, "<p bio>", m.bio,
      "<div subjects>">>
    \o Join(Spans("<span tag>", m.subjects)) \o <<"</div>">>

\* the template literal of renderServices
ServiceBlock(p) ==
    <<IF p.isPopular THEN "<div card service-card card--popular>"
                     ELSE "<div card service-card>">>
    \o (IF p.isPopular THEN <<"<span badge--popular>">> ELSE <<>>)
    \o <<"<h3 title>", p.title, "<div price>", p.price, "<ul>">>
    \o Join(Spans("<li>", p.features))
    \o <<"<a wa.me>", p.title, "</div>">>

\* the template literal of renderBlog: at most two tags
BlogBlock(post) ==
    <<"<div card blog-card>", "<time>", post.date, post.date, "<div tags>">>
    \o Join(Spans("<span tag--small>", Slice(post.tags, 2)))
    \o <<"<h3 title>", post.title, "<p excerpt>", post.excerpt,
         "<a link>", post.link, "</div>">>

\* the template literal of renderAllArticles: every tag
ArchiveBlock(post) ==
    <<"<div card blog-card flex>", "<time>", post.date, post.date, "<div tags>">>
    \o Join(Spans("<span tag--small>", post.tags))
    \o <<"<h3 title>", post.title, "<p excerpt>", post.excerpt,
         "<a link>", post.link, "</div>">>

\* the fragment a renderer builds from one record
Block(sel, rec) ==
    CASE sel = "team"     -> TeamBlock(rec)
      [] sel = "services" -> ServiceBlock(rec)
      [] sel = "blog"     -> BlogBlock(rec)
      [] sel = "fullBlog" -> ArchiveBlock(rec)

\* data.map(rec => `...`).join('')
Html(sel, data) == Join([i \in 1..Len(data) |-> Block(sel, data[i])])

\* a renderer without the !data half of its guard: null renders as no records
renderList_NoDataGuard(sel, dom, value) ==
    IF ~exists[sel]
    THEN dom
    ELSE [dom EXCEPT ![sel] = Html(sel, value.data)]

\* a renderer that appends to the container instead of replacing its content
renderList_Append(sel, dom, value) ==
    IF ~exists[sel] \/ value.null
    THEN dom
    ELSE [dom EXCEPT ![sel] = @ \o Html(sel, value.data)]

\* the body the four renderers share: the guard on container and data, then
\* one assignment to container.innerHTML.  dom is the containers' content.
renderList(sel, dom, value) ==
    IF ~exists[sel] \/ value.null
    THEN dom
    ELSE [dom EXCEPT ![sel] = Html(sel, value.data)]

renderTeam(dom, value)        == renderList("team", dom, value)
renderServices(dom, value)    == renderList("services", dom, value)
renderBlog(dom, value)        == renderList("blog", dom, value)
renderAllArticles(dom, value) == renderList("fullBlog", dom, value)

\* the renderer that writes to container sel
Renderer(sel, dom, value) ==
    CASE sel = "team"     -> renderTeam(dom, value)
      [] sel = "services" -> renderServices(dom, value)
      [] sel = "blog"     -> renderBlog(dom, value)
      [] sel = "fullBlog" -> renderAllArticles(dom, value)

\* the records a renderer is meant for
RecordsOf(sel) ==
    CASE sel = "team"     -> Members
      [] sel = "services" -> Products
      [] sel = "blog"     -> Posts
      [] sel = "fullBlog" -> Posts

---------------------------------------------------------------------------
(* Data loader *)

\* CONFIG.paths
Urls == {"team", "products", "blog"}

\* the records the file behind a URL holds
RecordsAt(url) ==
    CASE url = "team"     -> Members
      [] url = "products" -> Products
      [] url = "blog"     -> Posts

\* what the server may answer: the fetch promise rejects, or a response
\* arrives whose ok flag is false or true
Responses == {"neterr", "notok", "ok"}

\* what response.json() may give: a SyntaxError, or the parsed array
NoBody == [kind |-> "none", data |-> <<>>]
BadBody == [kind |-> "syntaxError", data |-> <<>>]
JsonBody(d) == [kind |-> "json", data |-> d]
Bodies(url) == {BadBody} \cup {JsonBody(d) : d \in Arrays(RecordsAt(url))}

\* a fetchData call that has just issued fetch(url)
NewCall(url) ==
    [url |-> url, st |-> "fetching", resp |-> "none", body |-> NoBody,
     value |-> Null]

\* a catch block that logs and throws the error on
catchBlock_Rethrow(call) == [call EXCEPT !.st = "rejected"]

\* catch (error) { console.error(...); return null; }
catchBlock(call) == [call EXCEPT !.st = "resolved", !.value = Null]

\* fetch(url) settles: a rejection or a non-ok response goes to the catch
\* block, an ok response goes on to response.json()
ResponseArrives(c, r) ==
    /\ c \in 1..Len(calls)
    /\ calls[c].st = "fetching"
    /\ IF r = "ok"
       THEN /\ calls' = [calls EXCEPT ![c].resp = r, ![c].st = "parsing"]
            /\ UNCHANGED <<errors, settleOrder>>
       ELSE /\ calls' = [calls EXCEPT ![c] = catchBlock([calls[c] EXCEPT !.resp = r])]
            /\ errors' = Append(errors, [who |-> "fetchData", call |-> c])
            /\ settleOrder' = Append(settleOrder, c)
    /\ UNCHANGED <<uiVars, domVars, renderVars, netReqs, routeVars, artVars>>

\* response.json() settles: the parsed value is returned, a SyntaxError goes
\* to the catch block
BodyParsed(c, b) ==
    /\ c \in 1..Len(calls)
    /\ calls[c].st = "parsing"
    /\ b \in Bodies(calls[c].url)
    /\ IF b.kind = "json"
       THEN /\ calls' = [calls EXCEPT ![c].body = b, ![c].st = "resolved",
                                      ![c].value = Json(b.data)]
            /\ UNCHANGED errors
       ELSE /\ calls' = [calls EXCEPT ![c] = catchBlock([calls[c] EXCEPT !.body = b])]
            /\ errors' = Append(errors, [who |-> "fetchData", call |-> c])
    /\ settleOrder' = Append(settleOrder, c)
    /\ UNCHANGED <<uiVars, domVars, renderVars, netReqs, routeVars, artVars>>

Settled(call) == call.st \in {"resolved", "rejected"}

\* no fetchData call made, nothing logged, nothing requested
FetchIdle ==
    /\ calls = <<>>
    /\ errors = <<>>
    /\ netReqs = [u \in Urls |-> 0]
    /\ settleOrder = <<>>

---------------------------------------------------------------------------
(* Page router and article page *)

\* String.prototype.includes on the path, taken segment by segment
Includes(path, name) == \E i \in 1..Len(path) : path[i] = name

\* the container each landing-page fetch feeds: Promise.all keeps positions
LandingUrls == <<"team", "products", "blog">>
LandingSels == <<"team", "services", "blog">>

Digits == {"0", "1", "2", "3", "4", "5", "6", "7", "8", "9"}

DigitVal(ch) ==
    CASE ch = "0" -> 0 [] ch = "1" -> 1 [] ch = "2" -> 2 [] ch = "3" -> 3
      [] ch = "4" -> 4 [] ch = "5" -> 5 [] ch = "6" -> 6 [] ch = "7" -> 7
      [] ch = "8" -> 8 [] ch = "9" -> 9

\* the longest prefix of chars made of digits
RECURSIVE DigitsPrefix(_)
DigitsPrefix(chars) ==
    IF chars = <<>> \/ Head(chars) \notin Digits
    THEN <<>>
    ELSE <<Head(chars)>> \o DigitsPrefix(Tail(chars))

\* the number a sequence of digits denotes
RECURSIVE ToNumber(_)
ToNumber(ds) ==
    IF ds = <<>> THEN 0
    ELSE 10 * ToNumber(SubSeq(ds, 1, Len(ds) - 1)) + DigitVal(ds[Len(ds)])

NaN == [nan |-> TRUE, n |-> 0]

\* parseInt(urlParams.get('id')): null and text without leading digits give
\* NaN; otherwise the leading digits, with an optional sign, are the value
ParseInt(param) ==
    IF ~param.present THEN NaN
    ELSE LET neg  == param.chars # <<>> /\ Head(param.chars) = "-"
             rest == IF param.chars # <<>> /\ Head(param.chars) \in {"-", "+"}
                     THEN Tail(param.chars) ELSE param.chars
             ds   == DigitsPrefix(rest)
         IN  IF ds = <<>> THEN NaN
             ELSE [nan |-> FALSE, n |-> IF neg THEN 0 - ToNumber(ds) ELSE ToNumber(ds)]

\* !id
Falsy(id) == id.nan \/ id.n = 0

\* data.find(p => p.id === id): the first match, <<>> when there is none
Find(data, id) ==
    LET hits == {i \in 1..Len(data) : data[i].id = id.n}
    IN  IF hits = {} THEN <<>>
        ELSE <<data[CHOOSE i \in hits : \A j \in hits : i <= j]>>

NotFoundTitle == "not found"
Fallback == <<"<p>not in our base</p>">>
ShareBlock == <<"<div share-block>">>

\* the article page before the script ran
ArticleIdle ==
    /\ artFetch = "none"
    /\ artData = <<>>
    /\ artTitle = "initial"
    /\ artContent = <<"initial">>
    /\ artMeta = <<"initial">>
    /\ artHero = [html |-> <<>>, display |-> ""]
    /\ docTitle = "Munificent"

RouterIdle ==
    /\ pc = "start"
    /\ branch = <<>>
    /\ invoked = <<>>
    /\ ArticleIdle

\* renderFullArticle(), up to the call of fetch('data/blog.json')
renderFullArticle ==
    LET id == ParseInt(idParam)
    IN  IF Falsy(id)
        THEN /\ artTitle' = NotFoundTitle
             /\ UNCHANGED <<artFetch, netReqs>>
        ELSE /\ artFetch' = "pending"
             /\ netReqs' = [netReqs EXCEPT !["blog"] = @ + 1]
             /\ UNCHANGED artTitle

\* a gate that lets the landing page load whatever containers exist
LandingGate_Always == TRUE

\* if (teamContainer)
LandingGate == exists["team"]

\* init(), up to its first await (or its end)
InitStart ==
    /\ pc = "start"
    /\ IF Includes(pathname, "article.html")
       THEN /\ branch' = Append(branch, "article")
            /\ renderFullArticle
            /\ pc' = "done"
            /\ UNCHANGED calls
       ELSE IF Includes(pathname, "blog.html")
       THEN /\ branch' = Append(branch, "blog")
            /\ calls' = <<NewCall("blog")>>
            /\ netReqs' = [netReqs EXCEPT !["blog"] = @ + 1]
            /\ pc' = "awaitBlog"
            /\ UNCHANGED <<artFetch, artTitle>>
       ELSE /\ branch' = Append(branch, "landing")
            /\ IF LandingGate
               THEN /\ calls' = [k \in 1..3 |-> NewCall(LandingUrls[k])]
                    /\ netReqs' = [u \in Urls |-> netReqs[u] + 1]
                    /\ pc' = "awaitAll"
               ELSE /\ pc' = "done"
                    /\ UNCHANGED <<calls, netReqs>>
            /\ UNCHANGED <<artFetch, artTitle>>
    /\ UNCHANGED <<uiVars, domVars, renderVars, errors, settleOrder, invoked,
                   artData, artContent, artMeta, artHero, docTitle>>

\* init() resumes after await fetchData(CONFIG.paths.blog)
BlogRender ==
    /\ pc = "awaitBlog"
    /\ Settled(calls[1])
    /\ IF calls[1].st = "resolved"
       THEN /\ content' = renderAllArticles(content, calls[1].value)
            /\ invoked' = Append(invoked, "fullBlog")
       ELSE UNCHANGED <<content, invoked>>
    /\ pc' = "done"
    /\ UNCHANGED <<uiVars, pathname, idParam, exists, renderVars, fetchVars,
                   branch, artVars>>

\* a Promise.all that lets go as soon as one of its promises has settled
AllSettled_First == \E k \in 1..3 : Settled(calls[k])

\* await Promise.all([...]) lets init() go on once every fetchData call
\* has settled
AllSettled == \A k \in 1..3 : Settled(calls[k])

\* init() resumes after await Promise.all: the three renderers in turn
LandingRender ==
    /\ pc = "awaitAll"
    /\ AllSettled
    /\ IF \A k \in 1..3 : calls[k].st # "rejected"
       THEN /\ content' = renderBlog(
                            renderServices(
                              renderTeam(content, calls[1].value),
                              calls[2].value),
                            calls[3].value)
            /\ invoked' = invoked \o LandingSels
       ELSE UNCHANGED <<content, invoked>>
    /\ pc' = "done"
    /\ UNCHANGED <<uiVars, pathname, idParam, exists, renderVars, fetchVars,
                   branch, artVars>>

\* what the article's fetch chain may end in: a rejected fetch, a body that
\* is not JSON, or the parsed array of posts
NetErr == [kind |-> "neterr", data |-> <<>>]
ArticleOutcomes == {NetErr, BadBody} \cup {JsonBody(d) : d \in Arrays(Posts)}

\* the article's promise chain settles: .then(data => ...) or .catch(...)
ArticleSettle(out) ==
    /\ artFetch = "pending"
    /\ IF out.kind # "json"
       THEN /\ artFetch' = "failed"
            /\ errors' = Append(errors, [who |-> "article", call |-> 0])
            /\ UNCHANGED <<artData, artTitle, artContent, artMeta, artHero, docTitle>>
       ELSE LET found == Find(out.data, ParseInt(idParam))
            IN  /\ artFetch' = "done"
                /\ artData' = out.data
                /\ UNCHANGED errors
                /\ IF found # <<>>
                   THEN LET post == found[1]
                        IN  /\ docTitle' = post.title
                            /\ artTitle' = post.title
                            /\ artHero' =
                                 IF post.image # <<>>
                                 THEN [artHero EXCEPT !.html = <<"<img>", post.image[1], post.title>>]
                                 ELSE [artHero EXCEPT !.display = "none"]
                            /\ artMeta' = <<post.date>> \o post.tags
                            /\ artContent' = <<post.content>> \o ShareBlock
                   ELSE /\ artTitle' = NotFoundTitle
                        /\ artContent' = Fallback
                        /\ UNCHANGED <<artMeta, artHero, docTitle>>
    /\ UNCHANGED <<uiVars, domVars, renderVars, calls, netReqs, settleOrder,
                   routeVars>>

---------------------------------------------------------------------------
(* The renderers called directly *)

NoCall == [sel |-> "none", value |-> Null, before |-> <<>>]

\* one call renderX(value)
CallRender(sel, value) ==
    /\ nRenders < MaxRenders
    /\ content' = Renderer(sel, content, value)
    /\ lastCall' = [sel |-> sel, value |-> value, before |-> content]
    /\ nRenders' = nRenders + 1
    /\ UNCHANGED <<uiVars, pathname, idParam, exists, fetchVars, routeVars, artVars>>

\* the user interface at rest
UIIdle ==
    /\ modalWired = TRUE
    /\ display = "none"
    /\ modalOpen = FALSE
    /\ timers = <<>>
    /\ reqs = <<>>
    /\ formPresent = TRUE
    /\ hasNumberInput = TRUE
    /\ formNumber = <<>>
    /\ btnText = "Send"
    /\ btnDisabled = FALSE
    /\ originalText = "unset"
    /\ sendState = "idle"
    /\ lastAlert = "none"
    /\ menuWired = TRUE
    /\ navActive = FALSE
    /\ toggleOpen = FALSE
    /\ snap = <<>>

RenderInit ==
    /\ UIIdle
    /\ pathname = <<"index.html">>
    /\ idParam = [present |-> FALSE, chars |-> <<>>]
    /\ exists \in [Containers -> BOOLEAN]
    /\ content = [c \in Containers |-> Placeholder]
    /\ lastCall = NoCall
    /\ nRenders = 0
    /\ FetchIdle
    /\ RouterIdle

RenderNext ==
    \E sel \in Containers :
        \E value \in {Null} \cup {Json(d) : d \in Arrays(RecordsOf(sel))} :
            CallRender(sel, value)

RenderSpec == RenderInit /\ [][RenderNext]_vars

---------------------------------------------------------------------------
(* Claims about the renderers *)

\* C3: a renderer called with null data, or whose container does not exist,
\* leaves the content of every container as it was before the call.
C3_NoOp ==
    (/\ lastCall.sel # "none"
     /\ (lastCall.value.null \/ ~exists[lastCall.sel]))
    => content = lastCall.before

\* C3 witness: a call with null data on an existing container
C3_Witness ==
    /\ lastCall.sel = "team"
    /\ exists["team"]
    /\ lastCall.value.null
    /\ content["team"] = Placeholder

\* the opening tag of each renderer's markup block
CardOpeners ==
    {"<div card team-card>", "<div card service-card card--popular>",
     "<div card service-card>", "<div card blog-card>",
     "<div card blog-card flex>"}

\* number of tokens of html that open a markup block
CountCards(html) == Cardinality({i \in 1..Len(html) : html[i] \in CardOpeners})

\* where the block of record i starts in the container: after the blocks of
\* the records before it
RECURSIVE BlockOffset(_, _, _)
BlockOffset(sel, data, i) ==
    IF i = 1 THEN 0
    ELSE BlockOffset(sel, data, i - 1) + Len(Block(sel, data[i - 1]))

\* C4: a renderer called with an array of n records on an existing container
\* leaves in it exactly n markup blocks and nothing else, the i-th built
\* from record i; the other containers keep their content.
C4_OneBlockPerRecord ==
    (/\ lastCall.sel # "none"
     /\ ~lastCall.value.null
     /\ exists[lastCall.sel])
    => LET sel  == lastCall.sel
           data == lastCall.value.data
           n    == Len(data)
           html == content[sel]
       IN  /\ Len(html) = BlockOffset(sel, data, n + 1)
           /\ CountCards(html) = n
           /\ \A i \in 1..n :
                SubSeq(html, BlockOffset(sel, data, i) + 1,
                       BlockOffset(sel, data, i + 1)) = Block(sel, data[i])
           /\ \A c \in Containers \ {sel} : content[c] = lastCall.before[c]

\* C4 witness: two different posts rendered into the blog preview, in order
C4_Witness ==
    /\ lastCall.sel = "blog"
    /\ exists["blog"]
    /\ lastCall.value = Json(<<b2, b1>>)
    /\ content["blog"] = BlogBlock(b2) \o BlogBlock(b1)

---------------------------------------------------------------------------
(* The user interface specification *)

UIElements ==
    /\ modalWired \in BOOLEAN
    /\ display \in {"", "none"}
    /\ modalOpen = FALSE
    /\ timers = <<>>
    /\ reqs = <<>>
    /\ formPresent \in BOOLEAN
    /\ hasNumberInput \in BOOLEAN
    /\ formNumber = <<>>
    /\ btnText \in Labels
    /\ btnDisabled = FALSE
    /\ originalText = "unset"
    /\ sendState = "idle"
    /\ lastAlert = "none"
    /\ menuWired \in BOOLEAN
    /\ navActive \in BOOLEAN
    /\ toggleOpen \in BOOLEAN
    /\ snap = <<>>

\* the part of the state the user interface leaves alone
PageIdle ==
    /\ pathname = <<"index.html">>
    /\ idParam = [present |-> FALSE, chars |-> <<>>]
    /\ exists = [c \in Containers |-> TRUE]
    /\ content = [c \in Containers |-> Placeholder]
    /\ lastCall = NoCall
    /\ nRenders = 0
    /\ FetchIdle
    /\ RouterIdle

UIInit == UIElements /\ PageIdle

UINext ==
    \/ OpenClick
    \/ CloseClick
    \/ \E t \in {"modal", "other"} : OutsideClick(t)
    \/ \E i \in 1..MaxTimers : OpenTimerFire(i)
    \/ \E i \in 1..MaxTimers : CloseTimerFire(i)
    \/ \E n \in 0..MaxRand : Submit(n)
    \/ SendResolve
    \/ SendReject
    \/ MenuToggleClick
    \/ NavLinkClick

UISpec == UIInit /\ [][UINext]_vars

\* The widget's promise settles, and a pending timer callback runs.
FairUISpec ==
    /\ UISpec
    /\ WF_vars(SendResolve \/ SendReject)
    /\ \A i \in 1..MaxTimers : WF_vars(OpenTimerFire(i) \/ CloseTimerFire(i))

---------------------------------------------------------------------------
(* Claims about the user interface *)

\* C1: every submission of the contact form, whether sendForm resolves or
\* rejects, leads to the submit button being enabled again with the label it
\* had before the submission; while no submission is pending the button is
\* enabled and never shows the sending label.
C1_ButtonRestored ==
    /\ [](sendState = "idle" => ~btnDisabled /\ btnText \in Labels)
    /\ \A l \in Labels :
          (btnDisabled /\ originalText = l) ~> (~btnDisabled /\ btnText = l)

\* C1 witness: a submission has been settled and the button is back
C1_Witness ==
    /\ lastAlert = "failed"
    /\ sendState = "idle"
    /\ ~btnDisabled
    /\ btnText = originalText

\* C2: once the last request was a close (after an open, from a hidden
\* modal) and its 300 ms timer has fired, the modal's display is 'none'.
C2_HiddenAfterClose ==
    (/\ Len(reqs) > 0
     /\ reqs[Len(reqs)] = "close"
     /\ \A i \in 1..Len(timers) : timers[i] # "close")
    => display = "none"

\* C2 witness: open then close, every timer has fired
C2_Witness ==
    /\ reqs = <<"open", "close">>
    /\ timers = <<>>
    /\ display = "none"

\* C6: after two consecutive clicks on the menu toggle, .nav-links and
\* .menu-toggle carry the classes they had before the first of the two.
C6_DoubleToggle ==
    Len(snap) = 2 => <<navActive, toggleOpen>> = snap[1]

\* C6 witness: two clicks from a state where only the panel was active
C6_Witness ==
    /\ Len(snap) = 2
    /\ snap[1] = <<TRUE, FALSE>>
    /\ navActive /\ ~toggleOpen

---------------------------------------------------------------------------
(* One page load *)

Paths ==
    {<<"index.html">>, <<>>, <<"blog.html">>, <<"article.html">>,
     <<"blog.html", "article.html">>}

NoParam == [present |-> FALSE, chars |-> <<>>]
Param(chars) == [present |-> TRUE, chars |-> chars]

IdParams ==
    {NoParam, Param(<<>>), Param(<<"0">>), Param(<<"1">>), Param(<<"2">>),
     Param(<<"7">>), Param(<<"1", "x">>), Param(<<"x", "1">>),
     Param(<<"0", "2">>), Param(<<"-", "1">>)}

\* the query string matters on the article page only, the list containers
\* on the other pages only
Init ==
    /\ UIIdle
    /\ pathname \in Paths
    /\ \/ /\ Includes(pathname, "article.html")
          /\ idParam \in IdParams
          /\ exists = [c \in Containers |-> FALSE]
       \/ /\ ~Includes(pathname, "article.html")
          /\ idParam = NoParam
          /\ exists \in [Containers -> BOOLEAN]
    /\ content = [c \in Containers |-> Placeholder]
    /\ lastCall = NoCall
    /\ nRenders = 0
    /\ FetchIdle
    /\ RouterIdle

Next ==
    \/ InitStart
    \/ \E c \in 1..3 : \E r \in Responses : ResponseArrives(c, r)
    \/ \E c \in 1..3 : \E b \in UNION {Bodies(u) : u \in Urls} : BodyParsed(c, b)
    \/ BlogRender
    \/ LandingRender
    \/ \E out \in ArticleOutcomes : ArticleSettle(out)

Spec == Init /\ [][Next]_vars

---------------------------------------------------------------------------
(* fetchData called directly *)

\* one call fetchData(url), up to its first await
CallFetchData(url) ==
    /\ Len(calls) < MaxCalls
    /\ calls' = Append(calls, NewCall(url))
    /\ netReqs' = [netReqs EXCEPT ![url] = @ + 1]
    /\ UNCHANGED <<uiVars, domVars, renderVars, errors, settleOrder, routeVars,
                   artVars>>

FetchInit ==
    /\ UIIdle
    /\ PageIdle

FetchNext ==
    \/ \E u \in Urls : CallFetchData(u)
    \/ \E c \in 1..MaxCalls : \E r \in Responses : ResponseArrives(c, r)
    \/ \E c \in 1..MaxCalls : \E b \in UNION {Bodies(u) : u \in Urls} : BodyParsed(c, b)

FetchSpec == FetchInit /\ [][FetchNext]_vars

---------------------------------------------------------------------------
(* Claims about the page load *)

OnArticlePage == pc = "done" /\ branch = <<"article">>
OnLandingPage == pc = "done" /\ branch = <<"landing">> /\ Len(calls) = 3

\* the id parameter is missing
IdMissing == ~idParam.present

\* the id parameter is a number, the posts have arrived and none carries it
IdUnmatched ==
    /\ ~Falsy(ParseInt(idParam))
    /\ artFetch = "done"
    /\ \A i \in 1..Len(artData) : artData[i].id # ParseInt(idParam).n

\* C5: on the article page, a missing id as well as an id matching no post
\* leaves the 'not found' title and the fallback message in the content.
C5_NotFoundShown ==
    (OnArticlePage /\ (IdMissing \/ IdUnmatched))
    => (artTitle = NotFoundTitle /\ artContent = Fallback)

\* the payload the fetch of url ended with, whatever its position or the
\* moment it settled
PayloadOf(url) ==
    LET c == CHOOSE k \in 1..Len(calls) : calls[k].url = url
    IN  calls[c].value

\* what the landing page shows for given payloads
ExpectedLanding ==
    [sel \in Containers |->
        CASE sel = "team" /\ exists[sel] /\ ~PayloadOf("team").null ->
                 Html("team", PayloadOf("team").data)
          [] sel = "services" /\ exists[sel] /\ ~PayloadOf("products").null ->
                 Html("services", PayloadOf("products").data)
          [] sel = "blog" /\ exists[sel] /\ ~PayloadOf("blog").null ->
                 Html("blog", PayloadOf("blog").data)
          [] OTHER -> Placeholder]

\* C7: the three landing-page fetches are issued together; no renderer has
\* run while one of them is unsettled; and what ends up rendered is fixed
\* by the three payloads alone, whatever order they settled in.
C7_RenderAfterAll ==
    /\ pc = "awaitAll" =>
          /\ Len(calls) = 3
          /\ \A u \in Urls : netReqs[u] = 1
          /\ \A k \in 1..3 : calls[k].url = LandingUrls[k]
    /\ (branch = <<"landing">> /\ \E k \in 1..Len(calls) : ~Settled(calls[k])) =>
          /\ invoked = <<>>
          /\ content = [c \in Containers |-> Placeholder]
    /\ OnLandingPage => content = ExpectedLanding

\* C7 witness: the fetches settled in the reverse of the order they were
\* issued in, and all three sections are rendered
C7_Witness ==
    /\ OnLandingPage
    /\ settleOrder = <<3, 2, 1>>
    /\ invoked = LandingSels
    /\ content["team"] = TeamBlock(m2) \o TeamBlock(m1)
    /\ content["services"] = ServiceBlock(p1)
    /\ content["blog"] = BlogBlock(b1)

\* the fetch of call record c failed: network error, non-success status,
\* or a body that is not JSON
Failed(call) == call.resp \in {"neterr", "notok"} \/ call.body.kind = "syntaxError"

\* C8: once the landing page has loaded, a container whose fetch failed is
\* untouched, and every existing container whose fetch succeeded holds the
\* blocks of the records the server sent, for each combination of failures.
C8_FailureIsolated ==
    (pc = "done" /\ branch = <<"landing">> /\ Len(calls) = 3) =>
        \A k \in 1..3 :
            LET sel == LandingSels[k]
            IN  /\ Settled(calls[k])
                /\ IF Failed(calls[k]) \/ ~exists[sel]
                   THEN content[sel] = Placeholder
                   ELSE content[sel] = Html(sel, calls[k].body.data)

\* C8 witness: the products fetch came back with a non-success status, the
\* other two sections are filled
C8_Witness ==
    /\ OnLandingPage
    /\ calls[2].resp = "notok"
    /\ exists["services"]
    /\ content["services"] = Placeholder
    /\ content["team"] = TeamBlock(m1)
    /\ content["blog"] = BlogBlock(b2) \o BlogBlock(b1)

\* C9 as stated: on the landing page every renderer whose own container
\* exists has run.
C9_OwnContainerOnly ==
    (pc = "done" /\ branch = <<"landing">>) =>
        \A k \in 1..3 :
            exists[LandingSels[k]] => \E i \in 1..Len(invoked) : invoked[i] = LandingSels[k]

\* C9, amended: the router takes exactly one branch, fixed by the path:
\* 'article.html' before 'blog.html' before the landing page.  The article
\* branch calls no list renderer and no fetchData; the blog branch fetches
\* the blog data alone and calls renderAllArticles alone; the landing branch
\* fetches and calls its three renderers if and only if the team container
\* exists.  A container that does not exist is never written.
C9_Router ==
    /\ Len(branch) <= 1
    /\ pc = "start" <=> branch = <<>>
    /\ branch # <<>> =>
          branch[1] = IF \E i \in 1..Len(pathname) : pathname[i] = "article.html"
                      THEN "article"
                      ELSE IF \E i \in 1..Len(pathname) : pathname[i] = "blog.html"
                      THEN "blog"
                      ELSE "landing"
    /\ branch = <<"article">> => calls = <<>> /\ invoked = <<>>
    /\ branch = <<"blog">> =>
          /\ Len(calls) = 1 /\ calls[1].url = "blog"
          /\ invoked = IF pc = "done" THEN <<"fullBlog">> ELSE <<>>
    /\ branch = <<"landing">> =>
          /\ Len(calls) = IF exists["team"] THEN 3 ELSE 0
          /\ invoked = IF pc = "done" /\ exists["team"] THEN LandingSels ELSE <<>>
    /\ \A sel \in Containers : ~exists[sel] => content[sel] = Placeholder

\* C9 witness: a landing page with a services container and no team
\* container: nothing is fetched, nothing is rendered
C9_Witness ==
    /\ pc = "done"
    /\ branch = <<"landing">>
    /\ ~exists["team"]
    /\ exists["services"]
    /\ calls = <<>>
    /\ invoked = <<>>

---------------------------------------------------------------------------
(* Claims about fetchData *)

\* the console.error entries fetchData wrote for call c
LogCount(c) ==
    Cardinality({i \in 1..Len(errors) :
                    errors[i].who = "fetchData" /\ errors[i].call = c})

\* C10: no fetchData call rejects; a call whose request succeeded with a
\* success status and a JSON body resolves to the parsed value and logs
\* nothing; every other settled call resolves to null with exactly one
\* console.error; each call issues one request of its own (no retry, no
\* cache).
C10_FetchData ==
    /\ \A c \in 1..Len(calls) :
          /\ calls[c].st # "rejected"
          /\ calls[c].st = "resolved" =>
                IF calls[c].resp = "ok" /\ calls[c].body.kind = "json"
                THEN calls[c].value = Json(calls[c].body.data) /\ LogCount(c) = 0
                ELSE calls[c].value = Null /\ LogCount(c) = 1
          /\ calls[c].st # "resolved" => LogCount(c) = 0
    /\ \A u \in Urls :
          netReqs[u] = Cardinality({c \in 1..Len(calls) : calls[c].url = u})

\* C10 witness: two calls for the same URL, the first failed, the second
\* succeeded with data
C10_Witness ==
    /\ Len(calls) = 2
    /\ calls[1].url = "blog" /\ calls[2].url = "blog"
    /\ calls[1].st = "resolved" /\ calls[1].value = Null
    /\ calls[2].st = "resolved" /\ calls[2].value = Json(<<b1, b2>>)
    /\ netReqs["blog"] = 2
    /\ Len(errors) = 1

---------------------------------------------------------------------------
(* Claims about the modal's timers *)

\* C11: whenever no modal timer is pending, the modal is displayed
\* ('block') exactly when it carries the 'modal--open' class, after any
\* interleaving of open requests, close requests and timer callbacks.
C11_DisplayMatchesClass ==
    (modalWired /\ timers = <<>>) => (display = "block" <=> modalOpen)

===========================================================================
